---- MODULE Spec2Model ----
(***************************************************************************)
(* A model of aes67-to-ws: the SDP parser (src/src/sdp.rs, src/src/lib.rs), *)
(* the RTP receive loop (src/src/stream.rs) and the websocket session      *)
(* controller (src/src/poem.rs).                                           *)
(*                                                                         *)
(* Text is modelled as TLA+ strings, read character by character with      *)
(* SubSeq; the four regular expressions of sdp.rs are matched with the     *)
(* leftmost-first, greedy semantics of the regex crate.                    *)
(***************************************************************************)
EXTENDS Integers, Sequences, FiniteSets, TLC

(***************************************************************************)
(* Text primitives                                                         *)
(***************************************************************************)

\* Option<T>: None is the empty tuple, Some(x) the tuple of x
None == << >>
Some(x) == << x >>
IsSome(o) == o # << >>
Unwrap(o) == o[1]

\* Result<T, E>
Ok(v) == [ok |-> TRUE, val |-> v]
Err(e) == [ok |-> FALSE, err |-> e]

Ch(s, i) == IF i >= 1 /\ i <= Len(s) THEN SubSeq(s, i, i) ELSE ""

StartsWithAt(s, i, lit) ==
    /\ i >= 1
    /\ i + Len(lit) - 1 <= Len(s)
    /\ SubSeq(s, i, i + Len(lit) - 1) = lit

\* str::contains
Contains(s, sub) == \E i \in 1..(Len(s) - Len(sub) + 1) : StartsWithAt(s, i, sub)

DigitChars == {"0", "1", "2", "3", "4", "5", "6", "7", "8", "9"}

DigitVal(c) ==
    CASE c = "0" -> 0 [] c = "1" -> 1 [] c = "2" -> 2 [] c = "3" -> 3
      [] c = "4" -> 4 [] c = "5" -> 5 [] c = "6" -> 6 [] c = "7" -> 7
      [] c = "8" -> 8 [] c = "9" -> 9

IsDigit(c) == c \in DigitChars

\* the index of the last character of the longest run of [0-9] that starts
\* at i (i - 1 when s[i] is no digit): what a greedy [0-9]+ consumes
RECURSIVE DigitRunEnd(_, _)
DigitRunEnd(s, i) ==
    IF IsDigit(Ch(s, i)) THEN DigitRunEnd(s, i + 1) ELSE i - 1

AllDigits(s) == Len(s) > 0 /\ \A i \in 1..Len(s) : IsDigit(Ch(s, i))

\* the value of a non-empty string of decimal digits
RECURSIVE DecimalValue(_)
DecimalValue(s) ==
    IF Len(s) = 0 THEN 0
    ELSE 10 * DecimalValue(SubSeq(s, 1, Len(s) - 1)) + DigitVal(Ch(s, Len(s)))

\* leading zeros do not change the value parsed
RECURSIVE StripZeros(_)
StripZeros(s) ==
    IF Len(s) > 1 /\ Ch(s, 1) = "0" THEN StripZeros(SubSeq(s, 2, Len(s))) ELSE s

\* The value of decimal text without leading zeros.  Values of up to nine
\* digits fit 32 bits; the inputs of this model stay below ten digits.
DigitsValue(z) ==
    IF AllDigits(z) /\ Len(z) <= 9 THEN Some(DecimalValue(z)) ELSE None

\* str::parse::<u32>() on a capture of [0-9]+
ParseU32(s) == DigitsValue(StripZeros(s))

\* str::parse::<u16>() on a capture of [0-9]+ : None when the value does
\* not fit 16 bits
U16Max == 65535

FitU16(v) == IF v # None /\ Unwrap(v) <= U16Max THEN v ELSE None

ParseU16(s) == FitU16(DigitsValue(StripZeros(s)))

WhiteSpace == {" ", "\t", "\r"}

\* str::trim
RECURSIVE TrimStart(_)
TrimStart(s) ==
    IF Len(s) > 0 /\ Ch(s, 1) \in WhiteSpace
    THEN TrimStart(SubSeq(s, 2, Len(s))) ELSE s

RECURSIVE TrimEnd(_)
TrimEnd(s) ==
    IF Len(s) > 0 /\ Ch(s, Len(s)) \in WhiteSpace
    THEN TrimEnd(SubSeq(s, 1, Len(s) - 1)) ELSE s

Trim(s) == TrimEnd(TrimStart(s))

\* str::to_lowercase, on the ASCII letters
LowerChar(c) ==
    CASE c = "A" -> "a" [] c = "B" -> "b" [] c = "C" -> "c" [] c = "D" -> "d"
      [] c = "E" -> "e" [] c = "F" -> "f" [] c = "G" -> "g" [] c = "H" -> "h"
      [] c = "I" -> "i" [] c = "J" -> "j" [] c = "K" -> "k" [] c = "L" -> "l"
      [] c = "M" -> "m" [] c = "N" -> "n" [] c = "O" -> "o" [] c = "P" -> "p"
      [] c = "Q" -> "q" [] c = "R" -> "r" [] c = "S" -> "s" [] c = "T" -> "t"
      [] c = "U" -> "u" [] c = "V" -> "v" [] c = "W" -> "w" [] c = "X" -> "x"
      [] c = "Y" -> "y" [] c = "Z" -> "z" [] OTHER -> c

RECURSIVE ToLowercase(_)
ToLowercase(s) ==
    IF Len(s) = 0 THEN ""
    ELSE LowerChar(Ch(s, 1)) \o ToLowercase(SubSeq(s, 2, Len(s)))

SetMax(S) == CHOOSE x \in S : \A y \in S : y <= x
SetMin(S) == CHOOSE x \in S : \A y \in S : x <= y

(***************************************************************************)
(* src/src/lib.rs: BitDepth                                                *)
(***************************************************************************)

BitDepths == {"L16", "L24", "L32", "FloatingPoint"}

\* from_str mutated: "24" is tested before "16"
BitDepthFromStrFirst24(s) ==
    IF Contains(s, "24") THEN Some("L24")
    ELSE IF Contains(s, "16") THEN Some("L16")
    ELSE IF Contains(s, "32") THEN Some("L32")
    ELSE IF Contains(ToLowercase(s), "float") THEN Some("FloatingPoint")
    ELSE None

\* impl FromStr for BitDepth: the first test that matches decides
BitDepthFromStr(s) ==
    IF Contains(s, "16") THEN Some("L16")
    ELSE IF Contains(s, "24") THEN Some("L24")
    ELSE IF Contains(s, "32") THEN Some("L32")
    ELSE IF Contains(ToLowercase(s), "float") THEN Some("FloatingPoint")
    ELSE None

\* BitDepth::bits
Bits(depth) ==
    CASE depth = "L16" -> 16
      [] depth = "L24" -> 24
      [] depth = "L32" -> 32
      [] depth = "FloatingPoint" -> 32

\* SessionDescriptor::default()
DefaultDescriptor ==
    [bit_depth |-> "L16", channels |-> 2, multicast_address |-> "127.0.0.1",
     multicast_port |-> 5004, packet_time |-> 1000, sample_rate |-> 44100]

\* buffer_size_frames: (packet_time * sample_rate as f32 / 1_000.0) as u32,
\* the packet time being held in thousandths of a millisecond.  The cast
\* truncates; for the packet times and rates of the descriptors below the
\* f32 product and quotient truncate to the same integer as the exact ones.
buffer_size_frames(sd) == (sd.packet_time * sd.sample_rate) \div 1000000

\* self.buffer_size_frames() * bit_depth * channels, bit_depth being
\* self.bit_depth.bits()
FramesTimesBits(frames, sd) == frames * Bits(sd.bit_depth) * sd.channels

\* buffer_size_bytes
buffer_size_bytes(sd) == FramesTimesBits(buffer_size_frames(sd), sd)

(***************************************************************************)
(* src/src/sdp.rs: the regular expressions and the values they capture     *)
(***************************************************************************)

\* RTPMAP_REGEX  rtpmap:([0-9]+) (.+)\/([0-9]+)\/([0-9]+)
\* The digit groups are maximal runs of digits.  The greedy (.+) ends
\* before the LAST "/" that is followed by digits "/" digit.

\* s[p] = "/" starts  /digits/digit  where c is the end of the digits
RtpMapTailAt(s, p, c) == c >= p + 1 /\ Ch(s, c + 1) = "/" /\ IsDigit(Ch(s, c + 2))

RtpMapSlashes(s, from) ==
    { p \in from..Len(s) : Ch(s, p) = "/" /\ RtpMapTailAt(s, p, DigitRunEnd(s, p + 1)) }

\* the payload id s[a..b] is followed by " ", a format and the tail
RtpMapIdAt(s, a, b) == b >= a /\ Ch(s, b + 1) = " " /\ RtpMapSlashes(s, b + 3) # {}

RtpMapMatchesAt(s, i) ==
    StartsWithAt(s, i, "rtpmap:") /\ RtpMapIdAt(s, i + 7, DigitRunEnd(s, i + 7))

\* the groups mutated: the indexes of the rate and the channels swapped
RtpMapGroupsSwapped(s, a, b, p, c) ==
    [payload_id  |-> SubSeq(s, a, b),
     bit_depth   |-> SubSeq(s, b + 2, p - 1),
     sample_rate |-> SubSeq(s, c + 2, DigitRunEnd(s, c + 2)),
     channels    |-> SubSeq(s, p + 1, c)]

\* the four groups: id s[a..b], format up to the slash p, rate s[p+1..c]
RtpMapGroups(s, a, b, p, c) ==
    [payload_id  |-> SubSeq(s, a, b),
     bit_depth   |-> SubSeq(s, b + 2, p - 1),
     sample_rate |-> SubSeq(s, p + 1, c),
     channels    |-> SubSeq(s, c + 2, DigitRunEnd(s, c + 2))]

RtpMapGroupsFormat(s, a, b, p) == RtpMapGroups(s, a, b, p, DigitRunEnd(s, p + 1))

RtpMapGroupsId(s, a, b) == RtpMapGroupsFormat(s, a, b, SetMax(RtpMapSlashes(s, b + 3)))

RtpMapGroupsAt(s, i) == RtpMapGroupsId(s, i + 7, DigitRunEnd(s, i + 7))

\* the leftmost of the starts of a match decides
RtpMapLeftmost(s, starts) ==
    IF starts = {} THEN None ELSE Some(RtpMapGroupsAt(s, SetMin(starts)))

\* re.captures(s): the groups of the leftmost match, None without a match
RtpMapCaptures(s) == RtpMapLeftmost(s, { i \in 1..Len(s) : RtpMapMatchesAt(s, i) })

\* the struct of from_str: every field must parse (the ? operators)
RtpMapFields(id, bd, sr, ch) ==
    IF id = None THEN Err("payload id")
    ELSE IF bd = None THEN Err("invalid bit depth")
    ELSE IF sr = None THEN Err("sample rate")
    ELSE IF ch = None THEN Err("channels")
    ELSE Ok([payload_id |-> Unwrap(id), bit_depth |-> Unwrap(bd),
             sample_rate |-> Unwrap(sr), channels |-> Unwrap(ch)])

RtpMapFromCaptures(caps) ==
    IF caps = None THEN Err("malformed rtpmap")
    ELSE RtpMapFields(ParseU16(Unwrap(caps).payload_id),
                      BitDepthFromStr(Unwrap(caps).bit_depth),
                      ParseU32(Unwrap(caps).sample_rate),
                      ParseU16(Unwrap(caps).channels))

\* impl FromStr for RtpMap
RtpMapFromStr(s) == RtpMapFromCaptures(RtpMapCaptures(s))

\* MEDIA_AND_TRANSPORT_REGEX  (.+) ([0-9]+) (.+) ([0-9]+)
\* A match, if there is one, starts at the first character.  x is the last
\* character of the greedy group 1, y the last digit of group 2, q the
\* last space that a digit follows (the greedy group 3 ends before it).
MediaLastSpaces(s, from) ==
    { q \in from..Len(s) : Ch(s, q) = " " /\ IsDigit(Ch(s, q + 1)) }

MediaPortAt(s, x, y) ==
    y >= x + 2 /\ Ch(s, y + 1) = " " /\ MediaLastSpaces(s, y + 3) # {}

MediaFirstEnds(s) ==
    { x \in 1..Len(s) : Ch(s, x + 1) = " " /\ MediaPortAt(s, x, DigitRunEnd(s, x + 2)) }

MediaGroups(s, x, y, q) ==
    [media      |-> SubSeq(s, 1, x),
     port       |-> SubSeq(s, x + 2, y),
     protocol   |-> SubSeq(s, y + 2, q - 1),
     payload_id |-> SubSeq(s, q + 1, DigitRunEnd(s, q + 1))]

MediaGroupsPort(s, x, y) == MediaGroups(s, x, y, SetMax(MediaLastSpaces(s, y + 3)))

MediaGroupsAt(s, x) == MediaGroupsPort(s, x, DigitRunEnd(s, x + 2))

MediaLongest(s, ends) ==
    IF ends = {} THEN None ELSE Some(MediaGroupsAt(s, SetMax(ends)))

\* re.captures(s)
MediaCaptures(s) == MediaLongest(s, MediaFirstEnds(s))

\* impl FromStr for Media
MediaFromStr(s) ==
    IF s = "audio" THEN Some("Audio")
    ELSE IF s = "video" THEN Some("Video")
    ELSE None

MediaFields(me, po, protocol, id) ==
    IF me = None THEN Err("unsupported media type")
    ELSE IF po = None THEN Err("port")
    ELSE IF id = None THEN Err("payload id")
    ELSE Ok([media |-> Unwrap(me), port |-> Unwrap(po),
             protocol |-> protocol, payload_id |-> Unwrap(id)])

MediaFromCaptures(caps) ==
    IF caps = None THEN Err("malformed media/transport")
    ELSE MediaFields(MediaFromStr(Unwrap(caps).media), ParseU16(Unwrap(caps).port),
                     Unwrap(caps).protocol, ParseU16(Unwrap(caps).payload_id))

\* impl FromStr for MediaAndTransport
MediaAndTransportFromStr(s) == MediaFromCaptures(MediaCaptures(s))

\* CONNECTION_INFO_REGEX
\*   (.+) (IP[4,6]) ([0-9]+\.[0-9]+\.[0-9]+\.[0-9]+)\/([0-9]+)
\* The end of the digits that start at i, 0 when there is none; and the end
\* of the digits after the "." that follows e, 0 when the shape differs.
FirstOctetEnd(s, i) == IF IsDigit(Ch(s, i)) THEN DigitRunEnd(s, i) ELSE 0

NextOctetEnd(s, e) ==
    IF e > 0 /\ Ch(s, e + 1) = "." /\ IsDigit(Ch(s, e + 2))
    THEN DigitRunEnd(s, e + 2) ELSE 0

\* the last character of digits.digits.digits.digits starting at i, or 0
DottedQuadEnd(s, i) ==
    NextOctetEnd(s, NextOctetEnd(s, NextOctetEnd(s, FirstOctetEnd(s, i))))

\* the address ends at e and "/" digit follows
ConnectionTailAt(s, e) == e > 0 /\ Ch(s, e + 1) = "/" /\ IsDigit(Ch(s, e + 2))

\* x is the last character of the greedy group 1
ConnectionFirstEnds(s) ==
    { x \in 1..Len(s) :
        /\ StartsWithAt(s, x + 1, " IP")
        /\ Ch(s, x + 4) \in {"4", ",", "6"}
        /\ Ch(s, x + 5) = " "
        /\ ConnectionTailAt(s, DottedQuadEnd(s, x + 6)) }

ConnectionAddressAt(s, i) == SubSeq(s, i, DottedQuadEnd(s, i))

ConnectionLongest(s, ends) ==
    IF ends = {} THEN None ELSE Some(ConnectionAddressAt(s, SetMax(ends) + 6))

\* re.captures(s), group 3
ConnectionCaptures(s) == ConnectionLongest(s, ConnectionFirstEnds(s))

\* str::parse::<Ipv4Addr>() on a capture of digits.digits.digits.digits :
\* four octets of at most three digits, at most 255 each, without a
\* leading zero
OctetOk(o) == Len(o) >= 1 /\ Len(o) <= 3 /\ DecimalValue(o) <= 255 /\ StripZeros(o) = o

Ipv4Octets(s, a, b, c) ==
    IF /\ OctetOk(SubSeq(s, 1, a))
       /\ OctetOk(SubSeq(s, a + 2, b))
       /\ OctetOk(SubSeq(s, b + 2, c))
       /\ OctetOk(SubSeq(s, c + 2, Len(s)))
    THEN Some(s) ELSE None

Ipv4Third(s, a, b) == Ipv4Octets(s, a, b, DigitRunEnd(s, b + 2))

Ipv4Second(s, a) == Ipv4Third(s, a, DigitRunEnd(s, a + 2))

Ipv4FromStr(s) == Ipv4Second(s, DigitRunEnd(s, 1))

ConnectionFromAddress(addr) ==
    IF addr = None THEN Err("invalid IPv4 address")
    ELSE Ok([multicast_address |-> Unwrap(addr)])

ConnectionFromCaptures(caps) ==
    IF caps = None THEN Err("malformed connection info")
    ELSE ConnectionFromAddress(Ipv4FromStr(Unwrap(caps)))

\* impl FromStr for ConnectionInfo
ConnectionInfoFromStr(s) == ConnectionFromCaptures(ConnectionCaptures(s))

\* str::parse::<f32>() on plain decimal text: digits, digits "." digits,
\* digits "." or "." digits.  The value is kept in thousandths (of a
\* millisecond, for a packet time); the inputs of this model have at most
\* three fractional digits, so the thousandths determine the value.
\* The integer parts of the model have at most six digits.
FractionDigit(f, i) == IF i <= Len(f) THEN DigitVal(Ch(f, i)) ELSE 0

FractionMilli(f) == 100 * FractionDigit(f, 1) + 10 * FractionDigit(f, 2) + FractionDigit(f, 3)

\* a is the end of the digits before the point, b of those after it
DecimalParts(s, a, b) ==
    IF a = Len(s) /\ a >= 1 /\ a <= 6
    THEN Some(1000 * DecimalValue(s))
    ELSE IF /\ Ch(s, a + 1) = "." /\ b = Len(s) /\ Len(s) >= 2
            /\ a <= 6
    THEN Some(1000 * DecimalValue(SubSeq(s, 1, a))
              + FractionMilli(SubSeq(s, a + 2, Len(s))))
    ELSE None

DecimalPoint(s, a) == DecimalParts(s, a, DigitRunEnd(s, a + 2))

ParseF32(s) == DecimalPoint(s, DigitRunEnd(s, 1))

\* PTIME_REGEX  ptime:(.+)  : the leftmost "ptime:" that is followed by at
\* least one character; the group is the rest of the text
PtimeStarts(s) == { i \in 1..Len(s) : StartsWithAt(s, i, "ptime:") /\ i + 6 <= Len(s) }

PtimeLeftmost(s, starts) ==
    IF starts = {} THEN None ELSE Some(SubSeq(s, SetMin(starts) + 6, Len(s)))

\* re.captures(attribute), group 1
PtimeCaptures(s) == PtimeLeftmost(s, PtimeStarts(s))

PtimeFromValue(v) == IF v = None THEN Err("invalid float literal") ELSE Ok(Unwrap(v))

PtimeFromCaptures(caps) ==
    IF caps = None THEN Err("malformed ptime") ELSE PtimeFromValue(ParseF32(Unwrap(caps)))

\* fn parse_packet_time
parse_packet_time(attribute) == PtimeFromCaptures(PtimeCaptures(attribute))

(***************************************************************************)
(* src/src/sdp.rs: lines, values and the document                          *)
(***************************************************************************)

\* an SdpValue of the given variant, or the error of the value's parser
SdpValueOf(kind, parsed) ==
    IF parsed.ok THEN Ok(Some([kind |-> kind, v |-> parsed.val])) ELSE parsed

\* fn parse_value: Ok(Some(value)), Ok(None) for a key that is skipped, or
\* the error of the value's parser
parse_value(key, value) ==
    CASE key = "o" -> Ok(Some([kind |-> "OriginatorAndSessionIdentifier", v |-> value]))
      [] key = "s" -> Ok(Some([kind |-> "SessionName", v |-> value]))
      [] key = "m" -> SdpValueOf("MediaNameAndTransportAddress",
                                 MediaAndTransportFromStr(value))
      [] key = "i" -> Ok(Some([kind |-> "SessionInfo", v |-> value]))
      [] key = "u" -> Ok(Some([kind |-> "SessionDescription", v |-> value]))
      [] key = "c" -> SdpValueOf("ConnectionInformation", ConnectionInfoFromStr(value))
      [] key = "a" -> Ok(Some([kind |-> "Attribute", v |-> value]))
      [] OTHER -> Ok(None)

\* str::split("="): the positions of "=" in the text
EqualsAt(s) == { i \in 1..Len(s) : Ch(s, i) = "=" }

\* kv.next(), kv.next(): the text before the first "=" at e1 and the text
\* between it and the second "=" (or the end of the line)
SplitKey(trim, e1) == SubSeq(trim, 1, e1 - 1)

SplitValue(trim, e1, rest) ==
    SubSeq(trim, e1 + 1, (IF rest = {} THEN Len(trim) + 1 ELSE SetMin(rest)) - 1)

\* the result of parse_line for the key and the result of parse_value
LineResult(key, pv) ==
    IF ~pv.ok THEN pv
    ELSE IF pv.val = None THEN Ok(None)
    ELSE Ok(Some([key |-> key, value |-> Unwrap(pv.val)]))

KeyValueAt(trim, eqs, e1) ==
    LineResult(SplitKey(trim, e1),
               parse_value(SplitKey(trim, e1), SplitValue(trim, e1, eqs \ {e1})))

\* the split mutated: a line without "=" is skipped like a comment
KeyValueSkips(trim, eqs) ==
    IF eqs = {} THEN Ok(None)
    ELSE KeyValueAt(trim, eqs, SetMin(eqs))

KeyValue(trim, eqs) ==
    IF eqs = {} THEN Err("line is not a key/value pair")
    ELSE KeyValueAt(trim, eqs, SetMin(eqs))

Trimmed(trim) ==
    IF StartsWithAt(trim, 1, "#") \/ Len(trim) = 0 THEN Ok(None)
    ELSE KeyValue(trim, EqualsAt(trim))

\* fn parse_line: Ok(None) for a comment or a blank line, an error for a
\* line without "=", else the key and the value up to a second "="
parse_line(line) == Trimmed(Trim(line))

\* the six Option fields that from_str fills while it scans the lines
NoFields ==
    [bit_depth |-> None, channels |-> None, multicast_address |-> None,
     multicast_port |-> None, packet_time |-> None, sample_rate |-> None]

\* if let Ok(rtpmap) = a.parse::<RtpMap>() { .. }
ApplyRtpMap(acc, rm) ==
    IF rm.ok
    THEN [acc EXCEPT !.sample_rate = Some(rm.val.sample_rate),
                     !.channels = Some(rm.val.channels),
                     !.bit_depth = Some(rm.val.bit_depth)]
    ELSE acc

\* if let Ok(ptime) = parse_packet_time(&a) { .. }
ApplyPtime(acc, pt) ==
    IF pt.ok THEN [acc EXCEPT !.packet_time = Some(pt.val)] ELSE acc

\* the match arm of from_str for an a= value: rtpmap, then ptime; a value
\* that fails either parser leaves those fields as they were
ApplyAttribute(acc, a) ==
    ApplyPtime(ApplyRtpMap(acc, RtpMapFromStr(a)), parse_packet_time(a))

\* the match on the value of one parsed line
ApplyValue(acc, value) ==
    CASE value.kind = "MediaNameAndTransportAddress" ->
            [acc EXCEPT !.multicast_port = Some(value.v.port)]
      [] value.kind = "ConnectionInformation" ->
            [acc EXCEPT !.multicast_address = Some(value.v.multicast_address)]
      [] value.kind = "Attribute" -> ApplyAttribute(acc, value.v)
      [] OTHER -> acc

\* the for loop of from_str over lines[i..]: the first line that is an
\* error ends the scan with that error (parse_line(line)?)
RECURSIVE ScanLines(_, _, _)
ScanLine(lines, i, acc, pl) ==
    IF ~pl.ok THEN pl
    ELSE IF pl.val = None THEN ScanLines(lines, i + 1, acc)
    ELSE ScanLines(lines, i + 1, ApplyValue(acc, Unwrap(pl.val).value))

ScanLines(lines, i, acc) ==
    IF i > Len(lines) THEN Ok(acc) ELSE ScanLine(lines, i, acc, parse_line(lines[i]))

\* the final if let of from_str: all six fields or the malformed-SDP error
Complete(scan) ==
    IF ~scan.ok THEN scan
    ELSE IF /\ scan.val.bit_depth # None /\ scan.val.channels # None
            /\ scan.val.multicast_address # None /\ scan.val.multicast_port # None
            /\ scan.val.packet_time # None /\ scan.val.sample_rate # None
    THEN Ok([bit_depth |-> Unwrap(scan.val.bit_depth),
             channels |-> Unwrap(scan.val.channels),
             multicast_address |-> Unwrap(scan.val.multicast_address),
             multicast_port |-> Unwrap(scan.val.multicast_port),
             packet_time |-> Unwrap(scan.val.packet_time),
             sample_rate |-> Unwrap(scan.val.sample_rate)])
    ELSE Err("malformed SDP")

\* impl FromStr for SessionDescriptor, on the document split at "\n"
SessionDescriptorFromStr(lines) == Complete(ScanLines(lines, 1, NoFields))

(***************************************************************************)
(* src/src/stream.rs: the sequence check of the receive loop               *)
(***************************************************************************)

\* the advisory (log::warn!) of one packet with sequence number cur when the
\* loop has prev on record.  sequence_number is the u16 of the header cast
\* to i32, so diff is a plain signed difference in -65535..65535.
SeqAdvisoryWrapping(prev, cur) ==
    LET diff == (cur - prev + 65536) % 65536 IN
    IF diff < 1 THEN [kind |-> "inconsistent", lost |-> 0]
    ELSE IF diff > 1 THEN [kind |-> "loss", lost |-> diff - 1]
    ELSE [kind |-> "none", lost |-> 0]

SeqAdvisory(prev, cur) ==
    LET diff == cur - prev IN
    IF diff < 1 /\ ~(cur = 0 /\ prev = 65535)
    THEN [kind |-> "inconsistent", lost |-> 0]
    ELSE IF diff > 1 THEN [kind |-> "loss", lost |-> diff - 1]
    ELSE [kind |-> "none", lost |-> 0]

NoAdvisory == [kind |-> "none", lost |-> 0]

\* if let Some(previous_sequence_number) = previous_sequence_number { .. }
Advisory(prev, cur) ==
    IF prev = None THEN NoAdvisory ELSE SeqAdvisory(Unwrap(prev), cur)

(***************************************************************************)
(* The session: serve() of src/src/poem.rs with the tasks it spawns        *)
(***************************************************************************)

\* bounds of the model
MaxCommands == 3
MaxLoops == 2
MaxDatagrams == 2

\* broadcast::channel(100)
BroadcastCapacity == 100

\* the documents a Play(Sdp(..)) may carry, as split at "\n"
GoodDoc ==
    << "v=0", "m=audio 5004 RTP/AVP 98", "c=IN IP4 239.69.1.2/32",
       "a=rtpmap:98 L24/48000/2", "a=ptime:1" >>
IncompleteDoc ==
    << "v=0", "m=audio 5004 RTP/AVP 98", "c=IN IP4 239.69.1.2/32",
       "a=rtpmap:98 L24/48000/2" >>
MalformedDoc == << "m=audio 5004 RTP/AVP 98", "not a key value pair" >>

SessionDocs == {GoodDoc, IncompleteDoc, MalformedDoc}

\* the descriptors a Play(Custom(..)) may carry
CustomDescriptors ==
    { [bit_depth |-> "L16", channels |-> 2, multicast_address |-> "239.69.1.3",
       multicast_port |-> 5006, packet_time |-> 1000, sample_rate |-> 44100] }

Sessions ==
    { [kind |-> "Sdp", sdp |-> d] : d \in SessionDocs }
      \cup { [kind |-> "Custom", sd |-> d] : d \in CustomDescriptors }

\* the sequence numbers of the datagrams of a session of the model
SeqNums == {0}

VARIABLES
    cmdPc,        \* the command task: "ready" at ws_rx.next(), "sleeping" in
                  \* the sleep of play(), "done" once serve() has returned
    serveResult,  \* "running", or what serve() returned: "ok" or "err"
    pendingSd,    \* the descriptor of the play() that is sleeping
    stopTail,     \* the number of values sent on the stop broadcast channel
    loops,        \* the receive loops spawned so far, in order
    payloadQ,     \* the unbounded payload channel
    forwarder,    \* the forwarding task: "running" or "ended"
    wsSink,       \* the binary frames written to the websocket
    nCmds,        \* history: the number of client messages handled
    lastCmd,      \* history: how the last client message was handled
    nDgrams,      \* history: the number of datagrams received
    lastRecv,     \* history: the last packet handled: the sequence number on
                  \* record before it, its own, and the advisory logged
    idleStops,    \* history: the stops that a Stop command sent while no
                  \* receive loop was alive
    lastOut,      \* history: the last datagram handled: the loop, what
                  \* receive_rtp_payload yielded and the sequence number
    doc,          \* the lines of the document given to from_str
    parseResult,  \* None, or Some of what from_str returned for doc
    inputText,    \* the text given to parse_line and to RtpMap::from_str
    lineResult,   \* None, or Some of what parse_line returned for inputText
    rtpMapResult, \* None, or Some of what RtpMap::from_str returned for inputText
    descriptor,   \* the descriptor whose buffer sizes are asked for
    bufferFrames, \* None, or Some of what buffer_size_frames() returned
    bufferBytes   \* None, or Some of what buffer_size_bytes() returned

sessionVars ==
    << cmdPc, serveResult, pendingSd, stopTail, loops, payloadQ, forwarder,
       wsSink, nCmds, lastCmd, nDgrams, lastRecv, idleStops, lastOut >>

textVars == << inputText, lineResult, rtpMapResult >>

sizeVars == << descriptor, bufferFrames, bufferBytes >>

parseVars == << doc, parseResult, textVars, sizeVars >>

vars == << sessionVars, parseVars >>

LoopIds == 1..Len(loops)
Alive(l) == loops[l].status = "alive"
LoopAlive(l) == l \in LoopIds /\ Alive(l)
AliveLoops == { l \in LoopIds : Alive(l) }

\* every broadcast::Sender is dropped once serve() has returned
StopClosed == cmdPc = "done"

\* every UnboundedSender is dropped once serve() has returned and every
\* receive loop has ended
PayloadClosed == cmdPc = "done" /\ AliveLoops = {}

Init ==
    /\ cmdPc = "ready"
    /\ serveResult = "running"
    /\ pendingSd = None
    /\ stopTail = 0
    /\ loops = << >>
    /\ payloadQ = << >>
    /\ forwarder = "running"
    /\ wsSink = << >>
    /\ nCmds = 0
    /\ lastCmd = "none"
    /\ nDgrams = 0
    /\ lastRecv = None
    /\ idleStops = {}
    /\ lastOut = None
    /\ doc = << >>
    /\ parseResult = None
    /\ inputText = ""
    /\ lineResult = None
    /\ rtpMapResult = None
    /\ descriptor = DefaultDescriptor
    /\ bufferFrames = None
    /\ bufferBytes = None

\* stop_tx.send(()).ok(): _stop_rx of serve() keeps the channel open, so
\* the value is always stored
StopSend(tail) == tail + 1

\* stop.subscribe() mutated: a receiver that also sees the last value sent
\* before it subscribed
SubscribeStale(tail) == IF tail > 0 THEN tail - 1 ELSE 0

\* stop.subscribe(): the new receiver sees the values sent from now on
Subscribe(tail) == tail

\* Result::ok(): the error is dropped
ResultOk(r) == IF r.ok THEN Some(r.val) ELSE None

\* the match of serve() on the session of a Play: the parsed document
\* (.ok() drops the error) or the literal descriptor
ResolveSession(session) ==
    IF session.kind = "Sdp"
    THEN ResultOk(SessionDescriptorFromStr(session.sdp))
    ELSE Some(session.sd)

\* the resolution of every session of the model
Resolved == [session \in Sessions |-> ResolveSession(session)]

Handled(kind) ==
    /\ nCmds < MaxCommands
    /\ nCmds' = nCmds + 1
    /\ lastCmd' = kind

\* a message that is no text frame, or text that serde_json cannot decode
RecvUndecodable ==
    /\ UNCHANGED parseVars
    /\ cmdPc = "ready"
    /\ Handled("undecodable")
    /\ UNCHANGED << cmdPc, serveResult, pendingSd, stopTail, loops, payloadQ,
                    forwarder, wsSink, nDgrams, lastRecv, lastOut, idleStops >>

\* Play whose session does not resolve: the if let Some(sd) fails
PlayUnresolvedStopsFirst(session) ==
    /\ UNCHANGED parseVars
    /\ cmdPc = "ready"
    /\ Resolved[session] = None
    /\ Handled("playUnresolved")
    /\ stopTail' = StopSend(stopTail)
    /\ UNCHANGED << cmdPc, serveResult, pendingSd, loops, payloadQ,
                    forwarder, wsSink, nDgrams, lastRecv, lastOut, idleStops >>

PlayUnresolved(session) ==
    /\ UNCHANGED parseVars
    /\ cmdPc = "ready"
    /\ Resolved[session] = None
    /\ Handled("playUnresolved")
    /\ UNCHANGED << cmdPc, serveResult, pendingSd, stopTail, loops, payloadQ,
                    forwarder, wsSink, nDgrams, lastRecv, lastOut, idleStops >>

\* Play whose session resolves: play() sends the stop and sleeps
PlayResolved(session) ==
    /\ UNCHANGED parseVars
    /\ cmdPc = "ready"
    /\ Resolved[session] # None
    /\ Len(loops) < MaxLoops
    /\ Handled("playResolved")
    /\ stopTail' = StopSend(stopTail)
    /\ pendingSd' = Resolved[session]
    /\ cmdPc' = "sleeping"
    /\ UNCHANGED << serveResult, loops, payloadQ, forwarder, wsSink, nDgrams,
                    lastRecv, lastOut, idleStops >>

RecvPlay == \E session \in Sessions : PlayResolved(session) \/ PlayUnresolved(session)

NewLoop(sd, tail) ==
    [sd |-> sd, status |-> "alive", next |-> Subscribe(tail), subAt |-> tail,
     cause |-> "none", sawStop |-> None, prev |-> None, sent |-> 0]

\* play() after the sleep: Stream::new opens the socket, Stream::play
\* subscribes and spawns the loop; an error of Stream::new ends serve()
PlayAfterGrace(opened) ==
    /\ UNCHANGED parseVars
    /\ cmdPc = "sleeping"
    /\ IF opened
       THEN /\ loops' = Append(loops, NewLoop(Unwrap(pendingSd), stopTail))
            /\ cmdPc' = "ready"
            /\ UNCHANGED serveResult
       ELSE /\ cmdPc' = "done"
            /\ serveResult' = "err"
            /\ UNCHANGED loops
    /\ pendingSd' = None
    /\ UNCHANGED << stopTail, payloadQ, forwarder, wsSink, nCmds, lastCmd,
                    nDgrams, lastRecv, lastOut, idleStops >>

PlayResume == \E opened \in BOOLEAN : PlayAfterGrace(opened)

\* ClientMessage::Stop mutated: the session ends as on a disconnect
RecvStopEndsSession ==
    /\ UNCHANGED parseVars
    /\ cmdPc = "ready"
    /\ Handled("stop")
    /\ stopTail' = StopSend(stopTail)
    /\ idleStops' = IF AliveLoops = {} THEN idleStops \cup {stopTail} ELSE idleStops
    /\ cmdPc' = "done"
    /\ serveResult' = "ok"
    /\ UNCHANGED << pendingSd, loops, payloadQ, forwarder, wsSink,
                    nDgrams, lastRecv, lastOut >>

\* ClientMessage::Stop
RecvStop ==
    /\ UNCHANGED parseVars
    /\ cmdPc = "ready"
    /\ Handled("stop")
    /\ stopTail' = StopSend(stopTail)
    /\ idleStops' = IF AliveLoops = {} THEN idleStops \cup {stopTail} ELSE idleStops
    /\ UNCHANGED << cmdPc, serveResult, pendingSd, loops, payloadQ, forwarder,
                    wsSink, nDgrams, lastRecv, lastOut >>

\* ws_rx.next() yields None or an error: stop, break, Ok(())
Disconnect ==
    /\ UNCHANGED parseVars
    /\ cmdPc = "ready"
    /\ Handled("disconnect")
    /\ stopTail' = StopSend(stopTail)
    /\ cmdPc' = "done"
    /\ serveResult' = "ok"
    /\ UNCHANGED << pendingSd, loops, payloadQ, forwarder, wsSink,
                    nDgrams, lastRecv, lastOut, idleStops >>

\* what a loop becomes when it breaks out of its loop: the task ends and
\* drops its socket, its stop receiver and its payload sender
Exited(loop, cause, saw) ==
    [loop EXCEPT !.status = "exited", !.cause = cause, !.sawStop = saw]

\* the stop branch mutated: the loop looks at the stop signal only after
\* it has handled a datagram
StopReadyAfterDatagram(l) ==
    (loops[l].next < stopTail \/ StopClosed) /\ loops[l].prev # None

\* the stop branch mutated: a receiver is woken only while a sender of the
\* stop channel exists
StopReadyWhileOpen(l) == loops[l].next < stopTail /\ ~StopClosed

\* the stop branch of the select! can complete: a value is waiting for this
\* receiver, or every sender is gone
StopReady(l) == loops[l].next < stopTail \/ StopClosed

\* select! takes  _ = stop.recv() => break  : any result of recv() ends
\* the loop: a value, Lagged or Closed
LoopStopped(l) ==
    /\ UNCHANGED parseVars
    /\ l \in LoopIds
    /\ Alive(l)
    /\ StopReady(l)
    /\ loops' = [loops EXCEPT ![l] =
           IF stopTail - loops[l].next > BroadcastCapacity
           THEN Exited(loops[l], "lagged", None)
           ELSE IF loops[l].next < stopTail
           THEN Exited(loops[l], "stop", Some(loops[l].next))
           ELSE Exited(loops[l], "closed", None)]
    /\ UNCHANGED << cmdPc, serveResult, pendingSd, stopTail, payloadQ, forwarder,
                    wsSink, nCmds, lastCmd, nDgrams, lastRecv, lastOut, idleStops >>

\* tx.send(payload) mutated: the newest payload overtakes the queue
EnqueueFront(q, payload) == << payload >> \o q

\* tx.send(payload) on the unbounded channel
Enqueue(q, payload) == Append(q, payload)

\* what receive_rtp_payload can yield for one datagram whose sequence
\* number, if it has one, is in nums
Outcomes(nums) ==
    { [kind |-> "payload", seq |-> n] : n \in nums }
      \cup { [kind |-> "empty"], [kind |-> "error"] }

\* the update mutated: a packet that raised an advisory is not recorded
RecordedUnlessAdvisory(prev, cur) ==
    IF Advisory(prev, cur) = NoAdvisory THEN Some(cur) ELSE prev

\* previous_sequence_number = Some(sequence_number), after the check
Recorded(prev, cur) == Some(cur)

\* the Err(e) arm mutated: the error is logged and the loop goes on
ReceiveFailedContinues(loop) == [loop EXCEPT !.cause = "recvErr"]

\* the Err(e) arm: "Error receiving data", "Stopping receiver.", break
ReceiveFailed(loop) == Exited(loop, "recvErr", None)

\* select! takes the receive branch: one datagram (or socket error) is
\* handled in full
LoopReceive(l, out) ==
    /\ UNCHANGED parseVars
    /\ l \in LoopIds
    /\ Alive(l)
    /\ nDgrams < MaxDatagrams
    /\ nDgrams' = nDgrams + 1
    /\ lastOut' = Some([loop |-> l, out |-> out])
    /\ CASE out.kind = "empty" ->
              UNCHANGED << loops, payloadQ, lastRecv >>
         [] out.kind = "error" ->
              /\ loops' = [loops EXCEPT ![l] = ReceiveFailed(loops[l])]
              /\ UNCHANGED << payloadQ, lastRecv >>
         [] out.kind = "payload" ->
              /\ lastRecv' = Some([prev |-> loops[l].prev, cur |-> out.seq,
                                   adv |-> Advisory(loops[l].prev, out.seq)])
              /\ IF forwarder = "running"
                 THEN /\ payloadQ' = Enqueue(payloadQ, << l, loops[l].sent + 1 >>)
                      /\ loops' = [loops EXCEPT ![l].prev = Recorded(loops[l].prev, out.seq),
                                                ![l].sent = loops[l].sent + 1]
                 ELSE /\ loops' = [loops EXCEPT ![l] =
                              Exited([loops[l] EXCEPT !.prev = Recorded(loops[l].prev, out.seq)],
                                     "sendErr", None)]
                      /\ UNCHANGED payloadQ
    /\ UNCHANGED << cmdPc, serveResult, pendingSd, stopTail, forwarder, wsSink,
                    nCmds, lastCmd, idleStops >>

LoopStep == \E l \in 1..MaxLoops : LoopStopped(l)

Datagram == \E l \in 1..MaxLoops : \E out \in Outcomes(SeqNums) : LoopReceive(l, out)

\* the forwarding task writes the oldest payload to the websocket
ForwardWrite ==
    /\ UNCHANGED parseVars
    /\ forwarder = "running"
    /\ payloadQ # << >>
    /\ wsSink' = Append(wsSink, Head(payloadQ))
    /\ payloadQ' = Tail(payloadQ)
    /\ UNCHANGED << cmdPc, serveResult, pendingSd, stopTail, loops, forwarder,
                    nCmds, lastCmd, nDgrams, lastRecv, lastOut, idleStops >>

\* ws_tx.send fails: the task breaks and drops payload_rx with what is queued
ForwardFail ==
    /\ UNCHANGED parseVars
    /\ forwarder = "running"
    /\ payloadQ # << >>
    /\ forwarder' = "ended"
    /\ payloadQ' = << >>
    /\ UNCHANGED << cmdPc, serveResult, pendingSd, stopTail, loops, wsSink,
                    nCmds, lastCmd, nDgrams, lastRecv, lastOut, idleStops >>

\* payload_rx.recv() yields None: the queue is empty and every sender is gone
ForwardEnd ==
    /\ UNCHANGED parseVars
    /\ forwarder = "running"
    /\ payloadQ = << >>
    /\ PayloadClosed
    /\ forwarder' = "ended"
    /\ UNCHANGED << cmdPc, serveResult, pendingSd, stopTail, loops, payloadQ,
                    wsSink, nCmds, lastCmd, nDgrams, lastRecv, lastOut, idleStops >>

Next ==
    \/ RecvUndecodable
    \/ RecvPlay
    \/ PlayResume
    \/ RecvStop
    \/ Disconnect
    \/ LoopStep
    \/ Datagram
    \/ ForwardWrite
    \/ ForwardFail
    \/ ForwardEnd

Spec == Init /\ [][Next]_vars

\* the runtime runs every task that can make progress: a loop whose stop
\* branch is ready is polled, and the sleep of play() ends
FairSpec ==
    /\ Spec
    /\ \A l \in 1..MaxLoops : WF_vars(LoopStopped(l))
    /\ WF_vars(PlayResume)

(***************************************************************************)
(* The sequence check on its own: one receive loop and the numbers that    *)
(* make every branch of the check happen                                   *)
(***************************************************************************)

\* the sequence numbers of the datagrams fed to the loop
WideSeqNums == {0, 1, 2, 10, 11, 12, 65534, 65535}

\* the session after Play(Custom(..)) has started its receive loop
SeqInit ==
    /\ cmdPc = "ready"
    /\ serveResult = "running"
    /\ pendingSd = None
    /\ stopTail = 1
    /\ \E sd \in CustomDescriptors : loops = << NewLoop(sd, 1) >>
    /\ payloadQ = << >>
    /\ forwarder = "running"
    /\ wsSink = << >>
    /\ nCmds = 1
    /\ lastCmd = "playResolved"
    /\ nDgrams = 0
    /\ lastRecv = None
    /\ idleStops = {}
    /\ lastOut = None
    /\ doc = << >>
    /\ parseResult = None
    /\ inputText = ""
    /\ lineResult = None
    /\ rtpMapResult = None
    /\ descriptor = DefaultDescriptor
    /\ bufferFrames = None
    /\ bufferBytes = None

SeqDatagram == \E out \in Outcomes(WideSeqNums) : LoopReceive(1, out)

SeqNext == SeqDatagram \/ ForwardWrite

SeqSpec == SeqInit /\ [][SeqNext]_vars

(***************************************************************************)
(* Receive loops one after the other: the loop of the first Play, later    *)
(* Plays, and datagrams whose numbers make every branch of the check       *)
(* happen                                                                  *)
(***************************************************************************)

\* the sequence numbers of the datagrams fed to the loops
LoopSeqNums == {10, 11, 12}

LoopsDatagram ==
    \E l \in 1..MaxLoops : \E out \in Outcomes(LoopSeqNums) : LoopReceive(l, out)

LoopsNext ==
    \/ LoopsDatagram
    \/ RecvPlay
    \/ PlayResume
    \/ LoopStep
    \/ ForwardWrite
    \/ ForwardFail

LoopsSpec == SeqInit /\ [][LoopsNext]_vars

(***************************************************************************)
(* The parser on its own: from_str applied to documents built from a pool  *)
(* of lines                                                                *)
(***************************************************************************)

\* The pool: each line with what it is meant to say.  kind is "m", "c",
\* "rtpmap" or "ptime" for a well-formed line of that sort and "ignored"
\* for a line the parser is to skip.
CoreLines ==
    { [text |-> "m=audio 5004 RTP/AVP 98", kind |-> "m", port |-> 5004],
      [text |-> "m=video 6000 RTP/AVP 96", kind |-> "m", port |-> 6000],
      [text |-> "c=IN IP4 239.69.1.2/32", kind |-> "c", address |-> "239.69.1.2"],
      [text |-> "c=IN IP4 224.0.0.251/1", kind |-> "c", address |-> "224.0.0.251"],
      [text |-> "a=rtpmap:98 L24/48000/2", kind |-> "rtpmap",
       depth |-> "L24", rate |-> 48000, channels |-> 2],
      [text |-> "a=rtpmap:96 L16/44100/8", kind |-> "rtpmap",
       depth |-> "L16", rate |-> 44100, channels |-> 8],
      [text |-> "a=ptime:1", kind |-> "ptime", milli |-> 1000],
      [text |-> "a=ptime:0.125", kind |-> "ptime", milli |-> 125] }

IgnoredLines ==
    { [text |-> "", kind |-> "ignored"],
      [text |-> " # c=IN IP4 10.0.0.1/1", kind |-> "ignored"],
      [text |-> "s=ptime:9\r", kind |-> "ignored"],
      [text |-> "a=recvonly", kind |-> "ignored"] }

LinePool == CoreLines \cup IgnoredLines

CoreKinds == {"m", "c", "rtpmap", "ptime"}

\* the most lines of kind "ignored" in a document of the model
MaxIgnored == 1

\* the sets of core lines with at most one line of each kind
CoreSets ==
    { S \in SUBSET CoreLines :
        \A k \in CoreKinds : Cardinality({ r \in S : r.kind = k }) <= 1 }

IgnoredSets == { S \in SUBSET IgnoredLines : Cardinality(S) <= MaxIgnored }

\* every order of the texts of the lines of S
RECURSIVE Orders(_)
Orders(S) ==
    IF S = {} THEN { << >> }
    ELSE UNION { { << r.text >> \o rest : rest \in Orders(S \ {r}) } : r \in S }

\* the documents of the model, each as split at "\n"
Documents == UNION { Orders(C \cup I) : C \in CoreSets, I \in IgnoredSets }

ParseInit ==
    /\ cmdPc = "ready"
    /\ serveResult = "running"
    /\ pendingSd = None
    /\ stopTail = 0
    /\ loops = << >>
    /\ payloadQ = << >>
    /\ forwarder = "running"
    /\ wsSink = << >>
    /\ nCmds = 0
    /\ lastCmd = "none"
    /\ nDgrams = 0
    /\ lastRecv = None
    /\ idleStops = {}
    /\ lastOut = None
    /\ doc \in Documents
    /\ parseResult = None
    /\ inputText = ""
    /\ lineResult = None
    /\ rtpMapResult = None
    /\ descriptor = DefaultDescriptor
    /\ bufferFrames = None
    /\ bufferBytes = None

\* sdp.parse() of serve(): from_str on the document
ParseDocument ==
    /\ parseResult = None
    /\ inputText = ""
    /\ lineResult = None
    /\ rtpMapResult = None
    /\ parseResult' = Some(SessionDescriptorFromStr(doc))
    /\ UNCHANGED << doc, sessionVars, textVars, sizeVars >>

ParseNext == ParseDocument

ParseSpec == ParseInit /\ [][ParseNext]_vars

(***************************************************************************)
(* The parser on documents that mix well-formed lines with lines of every  *)
(* other sort                                                              *)
(***************************************************************************)

\* one well-formed line of each kind
BaseLines ==
    { r \in CoreLines :
        r.text \in { "m=audio 5004 RTP/AVP 98", "c=IN IP4 239.69.1.2/32",
                     "a=rtpmap:98 L24/48000/2", "a=ptime:1" } }

\* The other lines, each with what it is by its text alone:
\*   "blank", "comment"  blank after trimming, or starting with "#"
\*   "otherkey"          key=value with a key other than m, c and a
\*   "plainattr"         a= value without the text rtpmap: or ptime:
\*   "lookalike"         a= value that does not begin with rtpmap: or
\*                       ptime: but holds that text further in
\*   "badattr"           a= value that begins with rtpmap: or ptime: and
\*                       goes on in another shape
\*   "noequals"          neither blank nor a comment, and without "="
OtherLines ==
    { [text |-> "  ", kind |-> "blank"],
      [text |-> "#no equals sign", kind |-> "comment"],
      [text |-> "s=ptime:9\r", kind |-> "otherkey"],
      [text |-> "a=recvonly", kind |-> "plainattr"],
      [text |-> "a=maxptime:20", kind |-> "lookalike"],
      [text |-> "a=x-rtpmap:97 L32/96000/4", kind |-> "lookalike"],
      [text |-> "a=rtpmap:98 L24/48000", kind |-> "badattr"],
      [text |-> "a=rtpmap:98 PCM/48000/2", kind |-> "badattr"],
      [text |-> "a=ptime:fast", kind |-> "badattr"],
      [text |-> "not a key value pair", kind |-> "noequals"],
      [text |-> "m audio 5004 RTP/AVP 98", kind |-> "noequals"] }

MixedPool == BaseLines \cup OtherLines

OtherSets == { S \in SUBSET OtherLines : Cardinality(S) <= MaxIgnored }

\* the documents: any of the base lines and a few other lines, in any order
MixedDocuments == UNION { Orders(C \cup I) : C \in SUBSET BaseLines, I \in OtherSets }

MixedInit ==
    /\ cmdPc = "ready"
    /\ serveResult = "running"
    /\ pendingSd = None
    /\ stopTail = 0
    /\ loops = << >>
    /\ payloadQ = << >>
    /\ forwarder = "running"
    /\ wsSink = << >>
    /\ nCmds = 0
    /\ lastCmd = "none"
    /\ nDgrams = 0
    /\ lastRecv = None
    /\ idleStops = {}
    /\ lastOut = None
    /\ doc \in MixedDocuments
    /\ parseResult = None
    /\ inputText = ""
    /\ lineResult = None
    /\ rtpMapResult = None
    /\ descriptor = DefaultDescriptor
    /\ bufferFrames = None
    /\ bufferBytes = None

MixedNext == ParseDocument

MixedSpec == MixedInit /\ [][MixedNext]_vars

(***************************************************************************)
(* parse_line and RtpMap::from_str on their own, on texts built from       *)
(* tokens                                                                  *)
(***************************************************************************)

\* the tokens, the numeric ones with their value
MediaTokens == {"audio", "video", "text"}
PortTokens ==
    { [s |-> "5004", n |-> 5004], [s |-> "0", n |-> 0],
      [s |-> "65535", n |-> 65535], [s |-> "65536", n |-> 65536] }
ProtocolTokens == {"RTP/AVP", "udp"}
IdTokens == { [s |-> "98", n |-> 98], [s |-> "127", n |-> 127] }
RateTokens ==
    { [s |-> "48000", n |-> 48000], [s |-> "44100", n |-> 44100],
      [s |-> "192000", n |-> 192000] }
ChannelTokens == { [s |-> "2", n |-> 2], [s |-> "8", n |-> 8] }

\* the format tokens, each with the BitDepth the priority order 16, 24,
\* 32, float gives it (None: no test matches)
FormatTokens ==
    { [s |-> "L16", depth |-> Some("L16")],
      [s |-> "L24", depth |-> Some("L24")],
      [s |-> "L32", depth |-> Some("L32")],
      [s |-> "FLOAT", depth |-> Some("FloatingPoint")],
      [s |-> "Float32", depth |-> Some("L32")],
      [s |-> "AM824", depth |-> Some("L24")],
      [s |-> "L2416", depth |-> Some("L16")],
      [s |-> "PCM", depth |-> None] }

\* m=<media> <port> <protocol> <payload-id>
FourTokenLines ==
    { [text |-> "m=" \o me \o " " \o po.s \o " " \o pr \o " " \o id.s,
       shape |-> "four", media |-> me, port |-> po.n, protocol |-> pr,
       payload_id |-> id.n] :
        me \in MediaTokens, po \in PortTokens, pr \in ProtocolTokens, id \in IdTokens }

\* m= lines whose value is not four tokens with a numeric port and id
OtherShapeLines ==
    { [text |-> t, shape |-> "other"] :
        t \in { "m=", "m=audio", "m=audio 5004 RTP/AVP", "m=audio 5004 98",
                "m=audio port RTP/AVP 98", "m=audio 5004 RTP/AVP 98 extra",
                "m=audio 5004 RTP AVP 98", "m=audio 5004 RTP/AVP 98 99",
                "m=audio 5004 RTP/AVP 98x" } }

MediaLines == FourTokenLines \cup OtherShapeLines

\* rtpmap:<payload-id> <format>/<rate>/<channels>
RtpMapAttributes ==
    { [text |-> "rtpmap:" \o id.s \o " " \o fo.s \o "/" \o ra.s \o "/" \o ch.s,
       payload_id |-> id.n, depth |-> fo.depth, rate |-> ra.n, channels |-> ch.n] :
        id \in IdTokens, fo \in FormatTokens, ra \in RateTokens, ch \in ChannelTokens }

Texts == { r.text : r \in MediaLines } \cup { r.text : r \in RtpMapAttributes }

TextInit ==
    /\ cmdPc = "ready"
    /\ serveResult = "running"
    /\ pendingSd = None
    /\ stopTail = 0
    /\ loops = << >>
    /\ payloadQ = << >>
    /\ forwarder = "running"
    /\ wsSink = << >>
    /\ nCmds = 0
    /\ lastCmd = "none"
    /\ nDgrams = 0
    /\ lastRecv = None
    /\ idleStops = {}
    /\ lastOut = None
    /\ doc = << >>
    /\ parseResult = None
    /\ inputText \in Texts
    /\ lineResult = None
    /\ rtpMapResult = None
    /\ descriptor = DefaultDescriptor
    /\ bufferFrames = None
    /\ bufferBytes = None

\* parse_line(line) of from_str, on the text
ParseLine ==
    /\ lineResult = None
    /\ lineResult' = Some(parse_line(inputText))
    /\ UNCHANGED << sessionVars, doc, parseResult, inputText, rtpMapResult, sizeVars >>

\* a.parse::<RtpMap>() of from_str, on the text
ParseRtpMap ==
    /\ rtpMapResult = None
    /\ rtpMapResult' = Some(RtpMapFromStr(inputText))
    /\ UNCHANGED << sessionVars, doc, parseResult, inputText, lineResult, sizeVars >>

TextNext == ParseLine \/ ParseRtpMap

TextSpec == TextInit /\ [][TextNext]_vars

(***************************************************************************)
(* The buffer sizes of a descriptor                                        *)
(***************************************************************************)

\* packet times in thousandths of a millisecond
PacketTimes == {125, 250, 333, 1000, 4000}
SampleRates == {44100, 48000, 96000}
ChannelCounts == {1, 2, 8}

Descriptors ==
    { [bit_depth |-> b, channels |-> c, multicast_address |-> "239.69.1.3",
       multicast_port |-> 5006, packet_time |-> p, sample_rate |-> r] :
        b \in BitDepths, c \in ChannelCounts, p \in PacketTimes,
        r \in SampleRates }

BufferInit ==
    /\ cmdPc = "ready"
    /\ serveResult = "running"
    /\ pendingSd = None
    /\ stopTail = 0
    /\ loops = << >>
    /\ payloadQ = << >>
    /\ forwarder = "running"
    /\ wsSink = << >>
    /\ nCmds = 0
    /\ lastCmd = "none"
    /\ nDgrams = 0
    /\ lastRecv = None
    /\ idleStops = {}
    /\ lastOut = None
    /\ doc = << >>
    /\ parseResult = None
    /\ inputText = ""
    /\ lineResult = None
    /\ rtpMapResult = None
    /\ descriptor \in Descriptors
    /\ bufferFrames = None
    /\ bufferBytes = None

\* descriptor.buffer_size_frames()
BufferSizeFrames ==
    /\ bufferFrames = None
    /\ bufferFrames' = Some(buffer_size_frames(descriptor))
    /\ UNCHANGED << sessionVars, doc, parseResult, textVars, descriptor, bufferBytes >>

\* descriptor.buffer_size_bytes()
BufferSizeBytes ==
    /\ bufferBytes = None
    /\ bufferBytes' = Some(buffer_size_bytes(descriptor))
    /\ UNCHANGED << sessionVars, doc, parseResult, textVars, descriptor, bufferFrames >>

BufferNext == BufferSizeFrames \/ BufferSizeBytes

BufferSpec == BufferInit /\ [][BufferNext]_vars

(***************************************************************************)
(* Properties of the session                                               *)
(***************************************************************************)

\* a step in which the command task handles a client message of this kind
HandledStep(kind) == nCmds' = nCmds + 1 /\ lastCmd' = kind

\* C1: in every reachable state at most one receive loop is alive (has
\* subscribed to the stop signal and has not left its loop).
C1_AtMostOneAliveLoop == Cardinality(AliveLoops) <= 1

\* C2: the socket of the loop of a later Play is bound only after the loop
\* of the earlier Play has released its socket: whenever Stream::new opens
\* a socket and the new loop starts, no earlier loop still holds one.
C2_SocketReleasedBeforeBind ==
    [][Len(loops') > Len(loops) => AliveLoops = {}]_vars

\* C3: a receive loop never ends because of a stop that was sent before the
\* loop subscribed: the stop it consumed, if any, is one of those sent at
\* or after its subscription.
C3_NoStaleStop ==
    \A l \in LoopIds :
        loops[l].sawStop # None => Unwrap(loops[l].sawStop) >= loops[l].subAt

\* a loop that subscribed after stops had been sent (its own Play's among
\* them) and was ended by a later stop
C3_Witness ==
    \E l \in LoopIds :
        /\ loops[l].cause = "stop"
        /\ loops[l].subAt >= 2
        /\ Unwrap(loops[l].sawStop) >= loops[l].subAt

\* C4: once a Stop has been handled while a loop is alive, that loop
\* eventually ends, also when no datagram ever arrives; and the command
\* task is back at reading the next message right after the Stop.
C4_StopEndsLoop ==
    /\ \A l \in 1..MaxLoops :
          (LoopAlive(l) /\ lastCmd = "stop") ~> (~LoopAlive(l))
    /\ [][HandledStep("stop") => cmdPc' = "ready"]_vars

\* a Stop was handled, the loop ended by it without having received a
\* single datagram, and the command task is ready for the next message
C4_Witness ==
    /\ lastCmd = "stop"
    /\ nDgrams = 0
    /\ cmdPc = "ready"
    /\ \E l \in LoopIds : loops[l].cause = "stop"

\* C5: a Play that does not resolve, or a message that does not decode,
\* changes no state of the session: no stop is sent, no loop is started or
\* ended, the queue, the forwarder and the command task stay as they were.
C5_UnresolvedPlayChangesNothing ==
    [][(HandledStep("playUnresolved") \/ HandledStep("undecodable"))
         => UNCHANGED << cmdPc, serveResult, pendingSd, stopTail, loops,
                         payloadQ, forwarder, wsSink >>]_vars

\* an unresolvable Play was handled while a loop was alive
C5_Witness == lastCmd = "playUnresolved" /\ AliveLoops # {}

\* C6: handling a Play that does not resolve reports a failure to the
\* client: a frame is written to the websocket or serve() returns an error.
C6_UnresolvedPlayIsReported ==
    [][HandledStep("playUnresolved")
         => (wsSink' # wsSink \/ serveResult' = "err")]_vars

\* the payloads of loop l in a sequence of payloads, in order
OfLoop(q, l) == SelectSeq(q, LAMBDA x : x[1] = l)

\* the payloads that loop l has enqueued, in order
EnqueuedBy(l) == [i \in 1..loops[l].sent |-> << l, i >>]

IsPrefix(p, q) == Len(p) <= Len(q) /\ SubSeq(q, 1, Len(p)) = p

\* C7: for every loop the frames written to the websocket are, in order, a
\* prefix of the payloads the loop enqueued; while the forwarder runs, the
\* frames written followed by the queued payloads are all of them; and a
\* loop that is alive can always take its next payload, whatever is queued.
C7_ForwardedInOrder ==
    \A l \in LoopIds :
        /\ IsPrefix(OfLoop(wsSink, l), EnqueuedBy(l))
        /\ forwarder = "running" => OfLoop(wsSink \o payloadQ, l) = EnqueuedBy(l)
        /\ (Alive(l) /\ nDgrams < MaxDatagrams)
              => ENABLED LoopReceive(l, [kind |-> "payload", seq |-> 0])

\* a loop has enqueued two payloads, one is written and one still queued
C7_Witness ==
    \E l \in LoopIds :
        /\ loops[l].sent >= 2
        /\ Len(OfLoop(wsSink, l)) >= 1
        /\ Len(OfLoop(payloadQ, l)) >= 1

\* C8: a Stop handled while no loop is alive changes nothing but the
\* channel's count of values sent: no loop starts or ends, serve() keeps
\* running and reading commands, and no loop is ever ended by such a stop.
C8_IdleStopIsNoOp ==
    /\ [][(HandledStep("stop") /\ AliveLoops = {})
            => UNCHANGED << cmdPc, serveResult, pendingSd, loops, payloadQ,
                            forwarder, wsSink >>]_vars
    /\ [](\A l \in LoopIds :
            loops[l].sawStop # None => Unwrap(loops[l].sawStop) \notin idleStops)

\* two Stops were handled while idle and a loop started later is alive
C8_Witness ==
    /\ Cardinality(idleStops) >= 2
    /\ AliveLoops # {}
    /\ cmdPc = "ready"

\* a step in which a receive loop handles one datagram or socket error
ReceiveStep == nDgrams' = nDgrams + 1

\* C15: a loop that met a receive error is no longer alive; a loop that is
\* not alive never changes again and enqueues nothing, so every payload
\* enqueued comes from a loop that is alive; and a play() that has slept
\* can always start its loop, whatever became of the earlier loops.
C15_ReceiveErrorEndsLoop ==
    /\ [](\A l \in LoopIds : loops[l].cause = "recvErr" => ~Alive(l))
    /\ [][\A l \in LoopIds :
            ~Alive(l) => /\ loops'[l] = loops[l]
                         /\ Len(OfLoop(payloadQ', l)) <= Len(OfLoop(payloadQ, l))]_vars
    /\ [](cmdPc = "sleeping" => ENABLED PlayAfterGrace(TRUE))

\* the first loop ended on a receive error and the loop of a later Play
\* has enqueued a payload
C15_Witness ==
    /\ Len(loops) = 2
    /\ loops[1].cause = "recvErr"
    /\ loops[1].sent = 0
    /\ loops[2].sent = 1

\* C16 as claimed, in the form a finite run decides: once the forwarding
\* task has ended, a receive loop that is alive can leave its loop by a
\* step of its own, with no command and no datagram (without such a step
\* it does not terminate when neither comes).
C16_SinkFailureEndsLoop ==
    \A l \in LoopIds : (forwarder = "ended" /\ Alive(l)) => ENABLED LoopStopped(l)

\* C16, what the loop does: once the forwarding task has ended, the next
\* payload a loop receives ends that loop and is not enqueued.
C16_NextPayloadEndsLoop ==
    [][(ReceiveStep /\ forwarder = "ended" /\ Unwrap(lastOut').out.kind = "payload")
         => /\ loops'[Unwrap(lastOut').loop].status = "exited"
            /\ loops'[Unwrap(lastOut').loop].cause = "sendErr"
            /\ payloadQ' = payloadQ]_vars

\* a loop has ended on a failed send after the forwarding task ended on a
\* failed write
C16_Witness ==
    /\ forwarder = "ended"
    /\ \E l \in LoopIds : loops[l].cause = "sendErr" /\ loops[l].sent >= 1

\* play() leaves its sleep and Stream::new fails: no loop is added
OpenFailed == cmdPc = "sleeping" /\ cmdPc' # "sleeping" /\ Len(loops') = Len(loops)

\* C17 as claimed: when the socket of a Play cannot be opened, no loop is
\* started and the command task goes on to the next command.
C17_OpenFailureSparesSession ==
    [][OpenFailed => (loops' = loops /\ cmdPc' = "ready" /\ serveResult' = "running")]_vars

\* C17, what serve() does: when the socket of a Play cannot be opened, no
\* loop is started, serve() returns the error, and no command is handled
\* after that.
C17_OpenFailureEndsSession ==
    /\ [][OpenFailed => (loops' = loops /\ cmdPc' = "done" /\ serveResult' = "err")]_vars
    /\ [][serveResult = "err" => (nCmds' = nCmds /\ Len(loops') = Len(loops))]_vars

\* serve() has returned the error of a failed open with commands left to
\* handle
C17_Witness ==
    /\ serveResult = "err"
    /\ cmdPc = "done"
    /\ nCmds < MaxCommands
    /\ loops = << >>

(***************************************************************************)
(* Properties of the sequence check                                        *)
(***************************************************************************)

Loss(n) == [kind |-> "loss", lost |-> n]
Inconsistent == [kind |-> "inconsistent", lost |-> 0]

\* the packet handled last had a previous sequence number on record
Checked == lastRecv # None /\ Unwrap(lastRecv).prev # None
LastPrev == Unwrap(Unwrap(lastRecv).prev)
LastCur == Unwrap(lastRecv).cur
LastAdv == Unwrap(lastRecv).adv

\* C9 as claimed: with diff = (current - previous) mod 65536, diff = 1
\* raises no advisory, diff > 1 one loss advisory of diff - 1 packets, and
\* diff = 0 one out-of-order/duplicate advisory.
C9_WrappingDiff ==
    Checked =>
        LET diff == (LastCur - LastPrev + 65536) % 65536 IN
        /\ diff = 1 => LastAdv = NoAdvisory
        /\ diff > 1 => LastAdv = Loss(diff - 1)
        /\ diff = 0 => LastAdv = Inconsistent

\* C9, what the sequence check computes: the difference is the plain signed
\* one.  The successor and the wrap 65535 -> 0 raise no advisory; a larger
\* number raises one loss advisory of current - previous - 1 packets; a
\* number that is not larger (the wrap 65535 -> 0 aside) raises one
\* out-of-order/duplicate advisory, also when the numbers wrapped across a
\* gap.
C9_SignedDiff ==
    Checked =>
        /\ LastCur = LastPrev + 1 => LastAdv = NoAdvisory
        /\ (LastPrev = 65535 /\ LastCur = 0) => LastAdv = NoAdvisory
        /\ LastCur > LastPrev + 1 => LastAdv = Loss(LastCur - LastPrev - 1)
        /\ (LastCur <= LastPrev /\ ~(LastPrev = 65535 /\ LastCur = 0))
              => LastAdv = Inconsistent

\* a gap across the wrap: 1 follows 65535 and the advisory is the
\* out-of-order one
C9_Witness ==
    /\ Checked
    /\ LastPrev = 65535
    /\ LastCur = 1
    /\ LastAdv = Inconsistent

\* what the sequence number on record and the queue become when loop l
\* handles the outcome out of receive_rtp_payload
RecordKept(l, out) ==
    CASE out.kind = "payload" ->
            /\ loops'[l].prev = Some(out.seq)
            /\ Unwrap(lastRecv').prev = loops[l].prev
            /\ loops[l].prev = None => Unwrap(lastRecv').adv = NoAdvisory
            /\ forwarder = "running" =>
                   /\ payloadQ' = Append(payloadQ, << l, loops[l].sent + 1 >>)
                   /\ loops'[l].status = "alive"
      [] out.kind = "empty" -> loops'[l] = loops[l] /\ payloadQ' = payloadQ
      [] OTHER -> loops'[l].prev = loops[l].prev

RecordStep(last) == RecordKept(last.loop, last.out)

\* C18: the sequence number on record is none in a new loop; a parsed
\* packet sets it to the packet's number whichever advisory was logged
\* (none for the first packet of a loop) and is enqueued while the payload
\* channel is open; an empty datagram changes nothing; and no other step
\* changes the number on record.
C18_SequenceRecord ==
    /\ [][ReceiveStep => RecordStep(Unwrap(lastOut'))]_vars
    /\ [][\A l \in 1..Len(loops') :
            IF l \in LoopIds
            THEN loops'[l].prev # loops[l].prev => ReceiveStep
            ELSE loops'[l].prev = None]_vars

\* the second packet of a loop was out of order: it was recorded and
\* enqueued all the same
C18_Witness ==
    /\ Checked
    /\ LastAdv = Inconsistent
    /\ \E l \in LoopIds :
          /\ Unwrap(lastOut).loop = l
          /\ loops[l].prev = Some(LastCur)
          /\ loops[l].sent = 2
          /\ Len(OfLoop(wsSink \o payloadQ, l)) = 2

(***************************************************************************)
(* Properties of the parser                                                *)
(***************************************************************************)

\* what the pool says about the line with this text
Meaning(text) == CHOOSE r \in LinePool : r.text = text

LinesOfKind(d, k) == { i \in 1..Len(d) : Meaning(d[i]).kind = k }

\* exactly one well-formed line of each of the four kinds; every other
\* line is one to ignore
WellFormed(d) == \A k \in CoreKinds : Cardinality(LinesOfKind(d, k)) = 1

TheLine(d, k) == Meaning(d[CHOOSE i \in LinesOfKind(d, k) : TRUE])

\* the descriptor that the lines of a well-formed document spell out
Embedded(d) ==
    [multicast_address |-> TheLine(d, "c").address,
     multicast_port    |-> TheLine(d, "m").port,
     bit_depth         |-> TheLine(d, "rtpmap").depth,
     channels          |-> TheLine(d, "rtpmap").channels,
     sample_rate       |-> TheLine(d, "rtpmap").rate,
     packet_time       |-> TheLine(d, "ptime").milli]

KindOf(t) == (CHOOSE r \in MixedPool : r.text = t).kind

KindsIn(d) == { KindOf(d[i]) : i \in 1..Len(d) }

\* the document without its lines of the kinds ks
RECURSIVE Without(_, _)
Without(d, ks) ==
    IF d = << >> THEN << >>
    ELSE IF KindOf(Head(d)) \in ks THEN Without(Tail(d), ks)
    ELSE << Head(d) >> \o Without(Tail(d), ks)

\* the kinds of lines the parser is to skip without an error
SkippedKinds == {"blank", "comment", "otherkey", "plainattr", "lookalike"}

Parsed == parseResult # None
Result == Unwrap(parseResult)

\* the document lacks one of the four lines and every other line of it is
\* one the parser is to skip
Incomplete(d) ==
    /\ CoreKinds \ KindsIn(d) # {}
    /\ KindsIn(d) \subseteq CoreKinds \cup SkippedKinds

\* C11 as claimed: a document that lacks the m= line, the c= line, the
\* rtpmap attribute or the ptime attribute fails with the incomplete-
\* document error.
C11_IncompleteDocumentFails ==
    (Parsed /\ Incomplete(doc)) => Result = Err("malformed SDP")

\* C11 without look-alike attributes: a document that lacks one of the
\* four lines, and holds the text rtpmap: or ptime: in no other attribute,
\* fails with the incomplete-document error and yields no descriptor.
C11_IncompleteWithoutLookalike ==
    (Parsed /\ Incomplete(doc) /\ "lookalike" \notin KindsIn(doc))
        => Result = Err("malformed SDP")

\* a document with three of the four lines, and an attribute that is
\* neither, has been refused as incomplete
C11_Witness ==
    /\ Parsed
    /\ Cardinality(CoreKinds \cap KindsIn(doc)) = 3
    /\ "plainattr" \in KindsIn(doc)
    /\ Result = Err("malformed SDP")

\* C14: blank lines and comments have no effect on the result, and a
\* document with any other line that holds no "=" fails with the
\* malformed-line error, whatever its other lines supply.
C14_LineHandling ==
    Parsed =>
        /\ Result = SessionDescriptorFromStr(Without(doc, {"blank", "comment"}))
        /\ "noequals" \in KindsIn(doc) => Result = Err("line is not a key/value pair")

\* a document with all four lines and a line without "=" has been refused
C14_Witness ==
    /\ Parsed
    /\ CoreKinds \subseteq KindsIn(doc)
    /\ "noequals" \in KindsIn(doc)
    /\ Result = Err("line is not a key/value pair")

\* C19 as claimed: a document with an a= value that begins with rtpmap:
\* or ptime: and goes on in another shape fails to parse.
C19_MalformedAttributeIsFatal ==
    (Parsed /\ "badattr" \in KindsIn(doc)) => ~Result.ok

\* C19, what from_str does: such an a= value has no effect at all; the
\* result is that of the document without the line.
C19_MalformedAttributeIsSkipped ==
    Parsed => Result = SessionDescriptorFromStr(Without(doc, {"badattr"}))

\* a document with the four lines and a malformed rtpmap or ptime
\* attribute has yielded a descriptor
C19_Witness ==
    /\ Parsed
    /\ "badattr" \in KindsIn(doc)
    /\ CoreKinds \subseteq KindsIn(doc)
    /\ Result.ok

\* C20 as claimed: an a= value that does not begin with rtpmap: or ptime:
\* has no effect; the result is that of the document without the line.
C20_OtherAttributeIsIgnored ==
    Parsed => Result = SessionDescriptorFromStr(Without(doc, {"plainattr", "lookalike"}))

\* C20 for the a= values that hold the text rtpmap: or ptime: nowhere:
\* such a line has no effect.
C20_PlainAttributeIsIgnored ==
    Parsed => Result = SessionDescriptorFromStr(Without(doc, {"plainattr"}))

\* the four lines and a=maxptime:20 after them have yielded a descriptor
\* with a packet time of 20 ms
C20_Witness ==
    /\ Parsed
    /\ CoreKinds \subseteq KindsIn(doc)
    /\ doc[Len(doc)] = "a=maxptime:20"
    /\ Result.ok
    /\ Result.val.packet_time = 20000

(***************************************************************************)
(* Properties of parse_line and RtpMap::from_str                           *)
(***************************************************************************)

\* the m= line of the model that the text is
IsMediaLine == inputText \in { r.text : r \in MediaLines }
TheMediaLine == CHOOSE r \in MediaLines : r.text = inputText

LineParsed == lineResult # None
LineOutcome == Unwrap(lineResult)

\* key m with the media/transport value of the four tokens
MediaValue(r) ==
    Ok(Some([key |-> "m",
             value |-> [kind |-> "MediaNameAndTransportAddress",
                        v |-> [media |-> IF r.media = "audio" THEN "Audio" ELSE "Video",
                               port |-> r.port, protocol |-> r.protocol,
                               payload_id |-> r.payload_id]]]))

\* four tokens with media audio or video and a port that fits 16 bits
Acceptable(r) ==
    r.shape = "four" /\ r.media \in {"audio", "video"} /\ r.port <= U16Max

\* C12 as claimed: a line  m=<media> <port> <protocol> <payload-id>  with
\* media audio or video yields key m and the four tokens; every other m=
\* line is a parse error.
C12_MediaLineOrError ==
    (IsMediaLine /\ LineParsed) =>
        IF Acceptable(TheMediaLine)
        THEN LineOutcome = MediaValue(TheMediaLine)
        ELSE ~LineOutcome.ok

\* C12, the four-token lines: such a line with media audio or video yields
\* key m and the four tokens, and with another media, or a port beyond 16
\* bits, a parse error.
C12_FourTokenLine ==
    (IsMediaLine /\ LineParsed /\ TheMediaLine.shape = "four") =>
        IF Acceptable(TheMediaLine)
        THEN LineOutcome = MediaValue(TheMediaLine)
        ELSE ~LineOutcome.ok

\* a line with text after the payload id has been parsed, and not refused
C12_Witness ==
    /\ inputText = "m=audio 5004 RTP/AVP 98 extra"
    /\ LineParsed
    /\ LineOutcome.ok

\* the rtpmap attribute of the model that the text is
IsRtpMapAttribute == inputText \in { r.text : r \in RtpMapAttributes }
TheRtpMapAttribute == CHOOSE r \in RtpMapAttributes : r.text = inputText

RtpMapParsed == rtpMapResult # None
RtpMapOutcome == Unwrap(rtpMapResult)

\* C13: an attribute  rtpmap:<payload-id> <format>/<rate>/<channels>
\* yields the payload id, the rate and the channel count of its numeric
\* tokens and the format that the first matching test of 16, 24, 32, float
\* gives; a format token that passes no test yields the format error.
C13_RtpMapAttribute ==
    (IsRtpMapAttribute /\ RtpMapParsed) =>
        IF TheRtpMapAttribute.depth = None
        THEN RtpMapOutcome = Err("invalid bit depth")
        ELSE RtpMapOutcome =
                 Ok([payload_id |-> TheRtpMapAttribute.payload_id,
                     bit_depth |-> Unwrap(TheRtpMapAttribute.depth),
                     sample_rate |-> TheRtpMapAttribute.rate,
                     channels |-> TheRtpMapAttribute.channels])

\* a format token that holds both "24" and "16" has been taken as 16-bit
C13_Witness ==
    /\ inputText = "rtpmap:98 L2416/192000/8"
    /\ RtpMapParsed
    /\ RtpMapOutcome.ok
    /\ RtpMapOutcome.val.bit_depth = "L16"

(***************************************************************************)
(* Properties of the buffer sizes                                          *)
(***************************************************************************)

\* bits_per_sample of the four sample formats
BitsPerSample ==
    [d \in BitDepths |-> IF d = "L16" THEN 16 ELSE IF d = "L24" THEN 24 ELSE 32]

\* n = floor(packet_duration_ms * sample_rate / 1000), the duration being
\* sd.packet_time thousandths of a millisecond
IsFramesPerPacket(n, sd) ==
    /\ n * 1000000 <= sd.packet_time * sd.sample_rate
    /\ sd.packet_time * sd.sample_rate < (n + 1) * 1000000

FramesReturned == IsSome(bufferFrames)
BytesReturned == IsSome(bufferBytes)

FramesAsSpecified ==
    FramesReturned => IsFramesPerPacket(Unwrap(bufferFrames), descriptor)

BytesOf(frames, sd, width) == frames * width * sd.channels

BytesWithWidth(bytes, sd, width) ==
    \E n \in 0..bytes : IsFramesPerPacket(n, sd) /\ bytes = BytesOf(n, sd, width)

\* C21 (as stated): for every descriptor, buffer_size_frames() returns
\* floor(packet_duration_ms * sample_rate / 1000) and buffer_size_bytes()
\* returns frames_per_packet * (bits_per_sample / 8) * channel_count, with
\* bits_per_sample 16, 24, 32 and 32 for L16, L24, L32 and floating point.
C21_BytesPerPacket ==
    /\ FramesAsSpecified
    /\ BytesReturned =>
          BytesWithWidth(Unwrap(bufferBytes), descriptor,
                         BitsPerSample[descriptor.bit_depth] \div 8)

\* C21 (what the code does): the frame count is as stated, and
\* buffer_size_bytes() returns frames_per_packet * bits_per_sample *
\* channel_count, eight times the stated number of bytes.
C21_BitsPerPacket ==
    /\ FramesAsSpecified
    /\ BytesReturned =>
          BytesWithWidth(Unwrap(bufferBytes), descriptor,
                         BitsPerSample[descriptor.bit_depth])

\* 1 ms, 48000 Hz, 16-bit, 2 channels: 48 frames, and 1536 where 192 bytes
\* are stated
C21_Witness ==
    /\ descriptor.packet_time = 1000
    /\ descriptor.sample_rate = 48000
    /\ descriptor.bit_depth = "L16"
    /\ descriptor.channels = 2
    /\ bufferFrames = Some(48)
    /\ bufferBytes = Some(1536)

(***************************************************************************)
(* Properties of the end of the session                                    *)
(***************************************************************************)

SessionEnded == cmdPc = "done"

\* C22: once serve() has returned, whether after a disconnect or a transport
\* error (Ok) or with the error of a failed Play, every receive loop the
\* session started eventually ends and drops its socket, also when no
\* datagram arrives any more; and no loop is started after the end.
C22_NoLoopOutlivesSession ==
    /\ \A l \in 1..MaxLoops : (SessionEnded /\ LoopAlive(l)) ~> (~LoopAlive(l))
    /\ [][SessionEnded => (SessionEnded' /\ Len(loops') = Len(loops))]_vars

\* the session ended on a disconnect while a loop was alive, and the loop
\* ended on the stop of that disconnect without having received a datagram
C22_Witness ==
    /\ SessionEnded
    /\ lastCmd = "disconnect"
    /\ nDgrams = 0
    /\ \E l \in LoopIds :
          /\ loops[l].status = "exited"
          /\ loops[l].sawStop = Some(stopTail - 1)

====
